---- MODULE Spec2Model ----
(***************************************************************************)
(* Model of paramValidator.ValidateCookieParams                            *)
(* (parameters/cookie_parameters.go).                                      *)
(*                                                                         *)
(* A Go string is modelled as a sequence of one-character strings, so that *)
(* parsing, trimming and lower-casing are computed character by character. *)
(***************************************************************************)
EXTENDS Integers, Sequences, FiniteSets, TLC

VARIABLES
    v_errors,   \* the validator's errors field (v.errors)
    request,    \* the request of the current / last call
    outcome,    \* "none" | "pending" | "returned" | "panic"
    passed,     \* first return value of the last call
    errs,       \* second return value of the last call
    decodeLog,  \* helpers.ConstructMapFromCSV calls made by the last call
    arrayLog    \* ValidateCookieArray calls made by the last call

vars == <<v_errors, request, outcome, passed, errs, decodeLog, arrayLog>>

----------------------------------------------------------------------------
(* Bounds of the model.                                                    *)
MaxParams == 2
MaxCookies == 2
MaxTypes == 2
MaxLen == 4

SeqsUpTo(S, n) == UNION {[1..k -> S] : k \in 0..n}

----------------------------------------------------------------------------
(* Characters and the string functions of the Go standard library.        *)

Digit == {"0", "1", "2", "3", "4", "5", "6", "7", "8", "9"}

UpperLetters == <<"A", "B", "C", "D", "E", "F", "G", "H", "I", "J", "K", "L", "M",
                  "N", "O", "P", "Q", "R", "S", "T", "U", "V", "W", "X", "Y", "Z">>

LowerLetters == <<"a", "b", "c", "d", "e", "f", "g", "h", "i", "j", "k", "l", "m",
                  "n", "o", "p", "q", "r", "s", "t", "u", "v", "w", "x", "y", "z">>

LetterIndexes == DOMAIN UpperLetters

ToLowerChar(c) ==
    IF \E i \in LetterIndexes : UpperLetters[i] = c
    THEN LowerLetters[CHOOSE i \in LetterIndexes : UpperLetters[i] = c]
    ELSE c

ToUpperChar(c) ==
    IF \E i \in LetterIndexes : LowerLetters[i] = c
    THEN UpperLetters[CHOOSE i \in LetterIndexes : LowerLetters[i] = c]
    ELSE c

\* strings.ToLower
ToLower(s) == [i \in 1..Len(s) |-> ToLowerChar(s[i])]

WhiteSpace == {" ", "\t", "\n", "\r"}

RECURSIVE TrimLeft(_)
TrimLeft(s) ==
    IF Len(s) > 0 /\ s[1] \in WhiteSpace THEN TrimLeft(Tail(s)) ELSE s

RECURSIVE TrimRight(_)
TrimRight(s) ==
    IF Len(s) > 0 /\ s[Len(s)] \in WhiteSpace
    THEN TrimRight(SubSeq(s, 1, Len(s) - 1))
    ELSE s

\* strings.TrimSpace
TrimSpace(s) == TrimRight(TrimLeft(s))

\* ParseBool had it folded the case of its argument first
ParseBoolFolded(str) ==
    ToLower(str) \in {<<"1">>, <<"t">>, <<"t", "r", "u", "e">>,
                      <<"0">>, <<"f">>, <<"f", "a", "l", "s", "e">>}

\* strconv.ParseBool: err == nil exactly for the twelve spellings of its switch.
ParseBool(str) ==
    CASE str = <<"1">> -> TRUE
      [] str = <<"t">> -> TRUE
      [] str = <<"T">> -> TRUE
      [] str = <<"T", "R", "U", "E">> -> TRUE
      [] str = <<"t", "r", "u", "e">> -> TRUE
      [] str = <<"T", "r", "u", "e">> -> TRUE
      [] str = <<"0">> -> TRUE
      [] str = <<"f">> -> TRUE
      [] str = <<"F">> -> TRUE
      [] str = <<"F", "A", "L", "S", "E">> -> TRUE
      [] str = <<"f", "a", "l", "s", "e">> -> TRUE
      [] str = <<"F", "a", "l", "s", "e">> -> TRUE
      [] OTHER -> FALSE

----------------------------------------------------------------------------
(* strconv.ParseFloat(s, 64): err == nil.  Decimal literals and the        *)
(* special values; hexadecimal mantissas and digit-separating underscores  *)
(* need characters ("x", "p", "_") that no modelled input contains.        *)

SignLen(s, i) == IF i <= Len(s) /\ s[i] \in {"+", "-"} THEN 1 ELSE 0

DigitVal(c) == CHOOSE n \in 0..9 : ToString(n) = c

\* strconv.special: "inf" / "infinity" with an optional sign, "nan" without.
Special(s) ==
    LET sl == SignLen(s, 1)
        body == ToLower(SubSeq(s, sl + 1, Len(s)))
    IN  \/ body \in {<<"i", "n", "f">>, <<"i", "n", "f", "i", "n", "i", "t", "y">>}
        \/ sl = 0 /\ body = <<"n", "a", "n">>

\* the mantissa loop of strconv.readFloat: the index after the mantissa
RECURSIVE ScanMantissa(_, _, _)
ScanMantissa(s, i, sawdot) ==
    IF i > Len(s) THEN i
    ELSE IF s[i] = "." THEN (IF sawdot THEN i ELSE ScanMantissa(s, i + 1, TRUE))
    ELSE IF s[i] \in Digit THEN ScanMantissa(s, i + 1, sawdot)
    ELSE i

RECURSIVE ScanDigits(_, _)
ScanDigits(s, i) ==
    IF i <= Len(s) /\ s[i] \in Digit THEN ScanDigits(s, i + 1) ELSE i

\* the exponent accumulation of readFloat: e = e*10 + digit while e < 10000
RECURSIVE ExpValue(_, _, _, _)
ExpValue(s, i, n, e) ==
    IF i >= n THEN e
    ELSE ExpValue(s, i + 1, n, IF e < 10000 THEN e * 10 + DigitVal(s[i]) ELSE e)

\* strconv.readFloat: ok, characters consumed, mantissa digits, decimal
\* point position and decimal exponent
ReadFloat(s) ==
    LET i0 == 1 + SignLen(s, 1)
        i1 == ScanMantissa(s, i0, FALSE)
        mant == SubSeq(s, i0, i1 - 1)
        digits == SelectSeq(mant, LAMBDA c : c \in Digit)
        dotAt == IF \E k \in 1..Len(mant) : mant[k] = "."
                 THEN CHOOSE k \in 1..Len(mant) : mant[k] = "."
                 ELSE Len(mant) + 1
        hasExp == i1 <= Len(s) /\ s[i1] \in {"e", "E"}
        i2 == i1 + 1
        i3 == i2 + SignLen(s, i2)
        i4 == ScanDigits(s, i3)
        eneg == i2 <= Len(s) /\ s[i2] = "-"
        e == IF hasExp /\ i4 > i3 THEN ExpValue(s, i3, i4, 0) ELSE 0
    IN  [ok |-> Len(digits) > 0 /\ (hasExp => i4 > i3),
         n |-> (IF hasExp THEN i4 ELSE i1) - 1,
         digits |-> digits,
         dp |-> dotAt - 1,
         exp |-> IF eneg THEN 0 - e ELSE e]

RECURSIVE LeadingZeros(_)
LeadingZeros(d) ==
    IF Len(d) > 0 /\ d[1] = "0" THEN 1 + LeadingZeros(Tail(d)) ELSE 0

\* leading digits of 2^1024 - 2^970, the least magnitude that rounds to +Inf;
\* the value is 1.797693134862315807937...e308
OverflowDigits == <<1, 7, 9, 7, 6, 9, 3, 1, 3, 4, 8, 6, 2, 3, 1, 5, 8, 0, 7, 9, 3, 7>>

RECURSIVE DigitsAbove(_, _)
\* d (padded with zeros) is lexicographically above OverflowDigits from index i on
DigitsAbove(d, i) ==
    IF i > Len(OverflowDigits) THEN FALSE
    ELSE LET x == IF i <= Len(d) THEN DigitVal(d[i]) ELSE 0
         IN  IF x > OverflowDigits[i] THEN TRUE
             ELSE IF x < OverflowDigits[i] THEN FALSE
             ELSE DigitsAbove(d, i + 1)

\* the conversion of the parsed decimal rounds to +/-Inf (ErrRange)
RangeError(r) ==
    LET z == LeadingZeros(r.digits)
        sig == SubSeq(r.digits, z + 1, Len(r.digits))
        k == r.dp - z - 1 + r.exp
    IN  /\ Len(sig) > 0
        /\ \/ k > 308
           \/ k = 308 /\ DigitsAbove(sig, 1)

\* ParseFloat had it not reported values out of the float64 range
ParseFloatUnranged(s) ==
    \/ Special(s)
    \/ LET r == ReadFloat(s)
       IN  r.ok /\ r.n = Len(s)

ParseFloat(s) ==
    \/ Special(s)
    \/ LET r == ReadFloat(s)
       IN  r.ok /\ r.n = Len(s) /\ ~RangeError(r)

----------------------------------------------------------------------------
(* Data: parameters, schemas, cookies, violations.                         *)

Integer == "integer"
Number == "number"
Boolean == "boolean"
Object == "object"
Array == "array"
String == "string"
Cookie == "cookie"

\* *base.Schema; isNil is the nil pointer obtained when p.Schema == nil.
\* enum.declared is sch.Enum != nil.  items.kind is "nil" (sch.Items == nil),
\* "A" (a schema) or "B" (a boolean) of the DynamicValue.
NilSchema ==
    [isNil |-> TRUE, type |-> <<>>, enum |-> [declared |-> FALSE, values |-> <<>>],
     items |-> [kind |-> "nil", type |-> <<>>]]

Schema(types, enum, items) ==
    [isNil |-> FALSE, type |-> types, enum |-> enum, items |-> items]

NoEnum == [declared |-> FALSE, values |-> <<>>]
Enum(values) == [declared |-> TRUE, values |-> values]
NoItems == [kind |-> "nil", type |-> <<>>]
ItemsSchema(types) == [kind |-> "A", type |-> types]
ItemsBool == [kind |-> "B", type |-> <<>>]

Param(name, in, schema, explode) ==
    [name |-> name, in |-> in, schema |-> schema, explode |-> explode]

Violation(reason, p, value) ==
    [reason |-> reason, parameter |-> p, offendingValue |-> value]

\* the constructors of the errors package
InvalidCookieParamNumber(p, value, sch) == Violation("NotNumber", p, value)
IncorrectCookieParamBool(p, value, sch) == Violation("NotBoolean", p, value)
IncorrectCookieParamEnum(p, value, sch) == Violation("NotInEnum", p, value)

NoParam == [name |-> ""]
PathNotFound == Violation("PathNotFound", NoParam, <<>>)
OperationNotFound == Violation("OperationNotFound", NoParam, <<>>)

\* paths.FindPath: the path item (found or nil) and the resolver's errors
FindPath(req) ==
    CASE req.resolve = "ok" -> [pathItem |-> TRUE, errs |-> <<>>]
      [] req.resolve = "notfound" -> [pathItem |-> FALSE, errs |-> <<PathNotFound>>]
      [] req.resolve = "nooperation" ->
            [pathItem |-> TRUE, errs |-> <<OperationNotFound>>]

\* helpers.ExtractParamsForOperation
ExtractParamsForOperation(req) == req.params

\* (*Parameter).IsExploded
IsExploded(p) == p.explode

\* strings.Split(s, ",")
RECURSIVE SplitComma(_, _)
SplitComma(s, cur) ==
    IF Len(s) = 0 THEN <<cur>>
    ELSE IF s[1] = "," THEN <<cur>> \o SplitComma(Tail(s), <<>>)
    ELSE SplitComma(Tail(s), Append(cur, s[1]))

\* helpers.ConstructMapFromCSV: entries 1,3,5,.. are keys, each followed by
\* its value; an unpaired trailing key is dropped; a later duplicate wins.
ConstructMapFromCSV(csv) ==
    LET parts == SplitComma(csv, <<>>)
        keyAt == {i \in 1..Len(parts) : i % 2 = 1 /\ i + 1 <= Len(parts)}
        last(k) == CHOOSE i \in keyAt :
                      parts[i] = k /\ \A j \in keyAt : parts[j] = k => j <= i
    IN  [k \in {parts[i] : i \in keyAt} |-> parts[last(k) + 1]]

\* schemas.ValidateParameterSchema: the structural validator is opaque; its
\* verdict on the decoded object is chosen by the environment.
ValidateParameterSchema(sch, obj, p, accepts) ==
    IF accepts THEN <<>> ELSE <<Violation("ObjectSchemaMismatch", p, <<>>)>>

\* one item of a non-exploded array against the item schema's type tags
ItemFails(item, types) ==
    \E k \in 1..Len(types) :
        \/ types[k] \in {Integer, Number} /\ ~ParseFloat(item)
        \/ types[k] = Boolean /\ ~ParseBool(item)

\* ValidateCookieArray: one violation for each item that fails the item schema
ValidateCookieArray(sch, p, value) ==
    LET items == SplitComma(value, <<>>)
        bad == SelectSeq(items, LAMBDA it : ItemFails(it, sch.items.type))
    IN  [i \in 1..Len(bad) |-> Violation("ArrayItemMismatch", p, bad[i])]

----------------------------------------------------------------------------
(* ValidateCookieParams.                                                   *)

\* what one call has done so far: the violations appended, the decode and
\* array-check calls made, and whether a nil dereference stopped it
EmptyPass == [errs |-> <<>>, decodes |-> <<>>, arrays |-> <<>>, panic |-> FALSE]

Call(i, j, k, value) == [param |-> i, cookie |-> j, tag |-> k, value |-> value]

\* line 24 had it tested the path item only
ResolveFailedPathOnly(found) == ~found.pathItem

\* line 24: pathItem == nil || errs != nil
ResolveFailed(found) == ~found.pathItem \/ found.errs # <<>>

\* lines 46-49
CheckNumber(p, value, acc) ==
    IF ~ParseFloat(value)
    THEN [acc EXCEPT !.errs = Append(@, InvalidCookieParamNumber(p, ToLower(value), p.schema))]
    ELSE acc

\* lines 51-54
CheckBoolean(p, value, acc) ==
    IF ~ParseBool(value)
    THEN [acc EXCEPT !.errs = Append(@, IncorrectCookieParamBool(p, ToLower(value), p.schema))]
    ELSE acc

\* lines 56-71 had the object been decoded whatever the explode flag
CheckObjectAlways(p, c, acc, accepts) ==
    [acc EXCEPT
        !.decodes = Append(@, c),
        !.errs = @ \o ValidateParameterSchema(p.schema,
                            ConstructMapFromCSV(c.value), p, accepts)]

\* lines 56-71
CheckObject(p, c, acc, accepts) ==
    IF ~IsExploded(p)
    THEN [acc EXCEPT
            !.decodes = Append(@, c),
            !.errs = @ \o ValidateParameterSchema(p.schema,
                                ConstructMapFromCSV(c.value), p, accepts)]
    ELSE acc

\* lines 74-82: sch.Items.IsA() dereferences sch.Items
CheckArray(p, c, acc) ==
    IF ~IsExploded(p)
    THEN IF p.schema.items.kind = "nil"
         THEN [acc EXCEPT !.panic = TRUE]
         ELSE IF p.schema.items.kind = "A"
              THEN [acc EXCEPT
                      !.arrays = Append(@, c),
                      !.errs = @ \o ValidateCookieArray(p.schema, p, c.value)]
              ELSE acc
    ELSE acc

\* lines 88-100 had the value been compared without strings.TrimSpace
CheckStringUntrimmed(p, value, acc) ==
    IF p.schema.enum.declared
    THEN IF \E e \in 1..Len(p.schema.enum.values) : value = p.schema.enum.values[e]
         THEN acc
         ELSE [acc EXCEPT !.errs = Append(@, IncorrectCookieParamEnum(p, ToLower(value), p.schema))]
    ELSE acc

\* lines 88-100
CheckString(p, value, acc) ==
    IF p.schema.enum.declared
    THEN IF \E e \in 1..Len(p.schema.enum.values) :
                TrimSpace(value) = p.schema.enum.values[e]
         THEN acc
         ELSE [acc EXCEPT !.errs = Append(@, IncorrectCookieParamEnum(p, ToLower(value), p.schema))]
    ELSE acc

\* lines 44-101: the switch on one type tag
SwitchType(p, c, ty, acc, accepts) ==
    CASE ty \in {Integer, Number} -> CheckNumber(p, c.value, acc)
      [] ty = Boolean -> CheckBoolean(p, c.value, acc)
      [] ty = Object -> CheckObject(p, c, acc, accepts)
      [] ty = Array -> CheckArray(p, c, acc)
      [] ty = String -> CheckString(p, c.value, acc)
      [] OTHER -> acc

\* lines 43-102: for _, ty := range pType
RECURSIVE TypeLoop(_, _, _, _, _, _, _)
TypeLoop(p, i, cookie, j, k, acc, accepts) ==
    IF acc.panic \/ k > Len(p.schema.type) THEN acc
    ELSE TypeLoop(p, i, cookie, j, k + 1,
                  SwitchType(p, Call(i, j, k, cookie.value), p.schema.type[k],
                             acc, accepts),
                  accepts)

\* lines 35-103: one cookie against one cookie parameter; pType := sch.Type
\* dereferences sch, which is nil when p.Schema == nil
MatchCookie(p, i, cookie, j, acc, accepts) ==
    IF cookie.name = p.name
    THEN IF p.schema.isNil
         THEN [acc EXCEPT !.panic = TRUE]
         ELSE TypeLoop(p, i, cookie, j, 1, acc, accepts)
    ELSE acc

\* lines 34-104: for _, cookie := range request.Cookies()
RECURSIVE CookieLoop(_, _, _, _, _, _)
CookieLoop(p, i, cookies, j, acc, accepts) ==
    IF acc.panic \/ j > Len(cookies) THEN acc
    ELSE CookieLoop(p, i, cookies, j + 1,
                    MatchCookie(p, i, cookies[j], j, acc, accepts), accepts)

\* lines 32-106: for _, p := range params
RECURSIVE ParamLoop(_, _, _, _, _)
ParamLoop(params, i, cookies, acc, accepts) ==
    IF acc.panic \/ i > Len(params) THEN acc
    ELSE ParamLoop(params, i + 1, cookies,
                   IF params[i].in = Cookie
                   THEN CookieLoop(params[i], i, cookies, 1, acc, accepts)
                   ELSE acc,
                   accepts)

\* lines 107-110 had the length test been >= 0
OutcomeAlwaysFailed(validationErrors) ==
    [passed |-> FALSE, errs |-> validationErrors]

\* lines 107-110
Outcome(validationErrors) ==
    IF Len(validationErrors) > 0
    THEN [passed |-> FALSE, errs |-> validationErrors]
    ELSE [passed |-> TRUE, errs |-> <<>>]

\* lines 20-111: one call of the handler
ValidateCookieParams(req, accepts) ==
    \E found \in {FindPath(req)} :
        /\ request' = req
        /\ IF ResolveFailed(found)
           THEN /\ v_errors' = found.errs
                /\ outcome' = "returned"
                /\ passed' = FALSE
                /\ errs' = found.errs
                /\ decodeLog' = <<>>
                /\ arrayLog' = <<>>
           ELSE \E pass \in {ParamLoop(ExtractParamsForOperation(req), 1,
                                       req.cookies, EmptyPass, accepts)} :
                \E out \in {Outcome(pass.errs)} :
                    /\ v_errors' = v_errors
                    /\ outcome' = IF pass.panic THEN "panic" ELSE "returned"
                    /\ passed' = IF pass.panic THEN FALSE ELSE out.passed
                    /\ errs' = IF pass.panic THEN <<>> ELSE out.errs
                    /\ decodeLog' = pass.decodes
                    /\ arrayLog' = pass.arrays

----------------------------------------------------------------------------
(* Inputs.                                                                 *)

Str1 == <<"1">>
StrX1 == <<"x", ",", "1">>

Request(resolve, params, cookies) ==
    [resolve |-> resolve, params |-> params, cookies |-> cookies]

HttpCookie(name, value) == [name |-> name, value |-> value]

ResolveFailures == {"notfound", "nooperation"}

\* Requests of the call sequences: an integer parameter and a parameter of
\* another location; cookies that match by name or differ in case only.  A
\* path that is not found has no parameters.
CallParams ==
    {Param("sid", Cookie, Schema(<<Integer>>, NoEnum, NoItems), FALSE),
     Param("sid", "query", Schema(<<Integer>>, NoEnum, NoItems), FALSE)}

CallCookies == {HttpCookie("sid", StrX1), HttpCookie("SID", Str1)}

CallRequests(np, nc) ==
    {Request(r, ps, cs) :
        r \in {"ok", "nooperation"},
        ps \in SeqsUpTo(CallParams, np), cs \in SeqsUpTo(CallCookies, nc)}
    \cup {Request("notfound", <<>>, cs) : cs \in SeqsUpTo(CallCookies, nc)}

Has(ts, tag) == \E k \in 1..Len(ts) : ts[k] = tag

\* Requests of one validation pass: every list of type tags, item schema
\* and explode flag on the parameter "sid", a parameter of another location.
\* A string tag comes with the enum ["1"].
PassTags == {Integer, Boolean, Object, Array, String}

PassSchemas(nt) ==
    {NilSchema} \cup
    {Schema(ts, IF Has(ts, String) THEN Enum(<<Str1>>) ELSE NoEnum, it) :
        ts \in SeqsUpTo(PassTags, nt),
        it \in {NoItems, ItemsSchema(<<Integer>>), ItemsBool}}

\* the item schema matters to an array tag only, the explode flag to an
\* array or object tag only
PassParams(nt) ==
    {Param("sid", Cookie, s, e) : s \in PassSchemas(nt), e \in BOOLEAN} \cup
    {Param("sid", "query", Schema(<<Integer>>, NoEnum, NoItems), FALSE)}

Relevant(p) ==
    /\ p.schema.items.kind # "nil" => Has(p.schema.type, Array)
    /\ p.explode => Has(p.schema.type, Array) \/ Has(p.schema.type, Object)

PassCookies == {HttpCookie(n, v) : n \in {"sid", "SID"}, v \in {Str1, StrX1}}

PassRequests(np, nc, nt) ==
    {Request("ok", ps, cs) :
        ps \in SeqsUpTo({p \in PassParams(nt) : Relevant(p)}, np),
        cs \in SeqsUpTo(PassCookies, nc)}

\* Requests of the object decode: parameters typed by lists of object and
\* integer tags; the same cookie (name and value) sent up to nc times, or
\* after a cookie whose name differs in case.
ObjectParams(nt) ==
    {Param("sid", Cookie, Schema(ts, NoEnum, NoItems), e) :
        ts \in SeqsUpTo({Object, Integer}, nt), e \in BOOLEAN}

ObjectCookieLists(nc) ==
    SeqsUpTo({HttpCookie("sid", StrX1)}, nc)
    \cup {<<HttpCookie("SID", StrX1), HttpCookie("sid", StrX1)>>}

ObjectRequests(np, nc, nt) ==
    {Request("ok", ps, cs) :
        ps \in SeqsUpTo({p \in ObjectParams(nt) : Relevant(p)}, np),
        cs \in ObjectCookieLists(nc)}

\* One cookie "sid" bound to one parameter "sid" of the given schema.
Single(schema, value) ==
    Request("ok", <<Param("sid", Cookie, schema, FALSE)>>, <<HttpCookie("sid", value)>>)

CaseVariants(w) ==
    {[i \in 1..Len(w) |-> IF up[i] THEN ToUpperChar(w[i]) ELSE ToLowerChar(w[i])] :
        up \in [1..Len(w) -> BOOLEAN]}

StrTrue == <<"t", "r", "u", "e">>
StrFalse == <<"f", "a", "l", "s", "e">>
StrMaybe == <<"m", "a", "y", "b", "e">>
BoolLiterals == {StrTrue, StrFalse, <<"1">>, <<"0">>, <<"t">>, <<"f">>}

BoolAlphabet == {"t", "T", "f", "F", "1", "0", "y"}

BoolValues(n) ==
    UNION {CaseVariants(w) : w \in BoolLiterals}
    \cup SeqsUpTo(BoolAlphabet, n)
    \cup {StrMaybe, <<"y", "e", "s">>, <<"n", "o">>, <<" ", "1">>}

BoolRequests(n) ==
    {Single(Schema(<<Boolean>>, NoEnum, NoItems), v) : v \in BoolValues(n)}

NumAlphabet == {"0", "1", "9", "-", "+", ".", "e", "E", "x"}

NumValues(n) ==
    SeqsUpTo(NumAlphabet, n) \cup
    {<<"a", "b", "c">>,
     <<"1", "e", "9", "9", "9">>,
     <<"1", "e", "-", "9", "9", "9">>,
     <<"0", "e", "9", "9", "9">>,
     <<"1", "e", "3", "0", "8">>,
     <<"1", "7", "e", "3", "0", "7">>,
     <<"1", "8", "e", "3", "0", "7">>,
     <<"2", "e", "3", "0", "8">>,
     <<"0", ".", "0", "2", "e", "3", "1", "0">>,
     <<"-", "1", "2", ".", "5", "E", "+", "3">>,
     <<"I", "n", "f">>,
     <<"-", "i", "n", "f", "i", "n", "i", "t", "y">>,
     <<"i", "n", "f", "i">>,
     <<"N", "a", "N">>,
     <<"+", "n", "a", "n">>,
     <<" ", "1">>}

\* a tag the switch does not list may stand beside the numeric one
NumRequests(n) ==
    {Single(Schema(ts, NoEnum, NoItems), v) :
        ts \in {<<Integer>>, <<Number>>, <<"null", Number>>}, v \in NumValues(n)}

StrRed == <<"r", "e", "d">>
StrGreen == <<"g", "r", "e", "e", "n">>
StrBlue == <<"b", "l", "u", "e">>

EnumAlphabet == {" ", "a", "A", "b"}

EnumValues(n) ==
    SeqsUpTo(EnumAlphabet, n) \cup
    {StrRed, <<" ", "r", "e", "d", " ">>, <<"R", "e", "d">>, <<" ", " ", "r", "e", "d">>,
     <<"r", " ", "e", "d">>, <<"p", "u", "r", "p", "l", "e">>, StrGreen,
     <<"b", "l", "u", "e", " ">>}

EnumChoices ==
    {NoEnum, Enum(<<>>), Enum(<<StrRed, StrGreen, StrBlue>>),
     Enum(<<<<"a">>, <<"a", "b">>, <<"a", " ", "b">>, <<" ", "A">>>>)}

EnumRequests(n) ==
    {Single(Schema(<<String>>, en, NoItems), v) : en \in EnumChoices, v \in EnumValues(n)}

----------------------------------------------------------------------------
(* Specifications.                                                         *)

NoRequest == Request("ok", <<>>, <<>>)

\* the validator after construction, called with any request any number of times
Init ==
    /\ v_errors = <<>>
    /\ request = NoRequest
    /\ outcome = "none"
    /\ passed = FALSE
    /\ errs = <<>>
    /\ decodeLog = <<>>
    /\ arrayLog = <<>>

\* the verdicts the structural validator can give in a call: it is consulted
\* for object tags only
Verdicts(req) ==
    IF \E i \in 1..Len(req.params) : Has(req.params[i].schema.type, Object)
    THEN BOOLEAN
    ELSE {TRUE}

Next ==
    \E req \in CallRequests(MaxParams, MaxCookies) : \E accepts \in Verdicts(req) :
        ValidateCookieParams(req, accepts)

Spec == Init /\ [][Next]_vars

\* one call on a fresh validator, the request drawn from a set of inputs
Received(requests) ==
    /\ v_errors = <<>>
    /\ request \in requests
    /\ outcome = "pending"
    /\ passed = FALSE
    /\ errs = <<>>
    /\ decodeLog = <<>>
    /\ arrayLog = <<>>

ValidatePending ==
    /\ outcome = "pending"
    /\ \E accepts \in Verdicts(request) : ValidateCookieParams(request, accepts)

InitPass == Received(PassRequests(MaxParams, MaxCookies, MaxTypes))
SpecPass == InitPass /\ [][ValidatePending]_vars

InitObject == Received(ObjectRequests(MaxParams, MaxCookies, MaxTypes))
SpecObject == InitObject /\ [][ValidatePending]_vars

InitBool == Received(BoolRequests(MaxLen))
SpecBool == InitBool /\ [][ValidatePending]_vars

InitNum == Received(NumRequests(MaxLen))
SpecNum == InitNum /\ [][ValidatePending]_vars

InitEnum == Received(EnumRequests(MaxLen))
SpecEnum == InitEnum /\ [][ValidatePending]_vars

----------------------------------------------------------------------------
(* Properties.                                                             *)

Finished == outcome \in {"returned", "panic"}
Returned == outcome = "returned"
Resolved == request.resolve = "ok"

ParamIndexes == 1..Len(request.params)
CookieIndexes == 1..Len(request.cookies)

\* cookie j carries the name of cookie parameter i
Matches(i, j) ==
    /\ request.params[i].in = Cookie
    /\ request.cookies[j].name = request.params[i].name

HasReason(e, reasons) == e.reason \in reasons

ErrsOf(reasons) == SelectSeq(errs, LAMBDA e : HasReason(e, reasons))

\* the parameter and the raw value of a request of one cookie and one parameter
TheParam == request.params[1]
TheValue == request.cookies[1].value

PassedClean == Returned /\ passed /\ errs = <<>>
FailedWith(reason) ==
    Returned /\ ~passed /\ errs = <<Violation(reason, TheParam, ToLower(TheValue))>>

\* C1: a cookie parameter without schema whose name matches a cookie lets the
\* call complete normally and contributes no violation, whatever the value.
C1_NoSchemaNoViolation ==
    Finished /\ Resolved =>
        \A i \in ParamIndexes :
            (request.params[i].schema.isNil /\ \E j \in CookieIndexes : Matches(i, j))
            => /\ Returned
               /\ \A n \in 1..Len(errs) : errs[n].parameter # request.params[i]

\* C2: when the resolver fails the call returns passed = false with exactly
\* the resolver's violations, and no parameter check has run.
C2_ResolverFailureShortCircuits ==
    Finished /\ ~Resolved =>
        /\ Returned
        /\ passed = FALSE
        /\ errs = FindPath(request).errs
        /\ decodeLog = <<>>
        /\ arrayLog = <<>>

\* a failed resolution of a request whose cookie would fail its parameter's check
C2_Witness ==
    /\ Returned
    /\ ~Resolved
    /\ \E i \in ParamIndexes : \E j \in CookieIndexes :
          /\ Matches(i, j)
          /\ request.params[i].schema.type = <<Integer>>
          /\ ~ParseFloat(request.cookies[j].value)

\* C3: a call returns passed = true if and only if it returns no violation,
\* and a resolved request none of whose cookies matches a cookie parameter
\* returns passed = true with no violation.
C3_PassedIffNoViolations ==
    /\ Returned => (passed <=> errs = <<>>)
    /\ (Finished /\ Resolved
        /\ \A i \in ParamIndexes : \A j \in CookieIndexes : ~Matches(i, j))
       => PassedClean

\* a resolved request that fails with at least one violation
C3_Witness == Returned /\ Resolved /\ ~passed /\ Len(errs) > 0

ScalarReasons == {"NotNumber", "NotBoolean", "NotInEnum"}

\* the scalar check of tag ty on value fails
ScalarFails(sch, ty, value) ==
    \/ ty \in {Integer, Number} /\ ~ParseFloat(value)
    \/ ty = Boolean /\ ~ParseBool(value)
    \/ /\ ty = String
       /\ sch.enum.declared
       /\ \A e \in 1..Len(sch.enum.values) : TrimSpace(value) # sch.enum.values[e]

\* the (parameter, cookie, type tag) checks of the request that fail
FailingChecks ==
    UNION {{<<i, j, k>> : k \in {k \in 1..Len(request.params[i].schema.type) :
                ScalarFails(request.params[i].schema,
                            request.params[i].schema.type[k],
                            request.cookies[j].value)}} :
           <<i, j>> \in {m \in ParamIndexes \X CookieIndexes : Matches(m[1], m[2])}}

\* C4: every resolved request is validated exhaustively: the call returns and
\* the scalar violations returned are as many as the failing checks of all the
\* type tags of all the matching cookie parameters.
C4_Exhaustive ==
    Finished /\ Resolved =>
        /\ Returned
        /\ Len(ErrsOf(ScalarReasons)) = Cardinality(FailingChecks)

ToUpper(s) == [i \in 1..Len(s) |-> ToUpperChar(s[i])]
Capitalised(s) == [i \in 1..Len(s) |-> IF i = 1 THEN ToUpperChar(s[i]) ELSE ToLowerChar(s[i])]

\* C5 (as stated): true, false, 1, 0, t, f pass in any mix of letter case,
\* and "maybe" fails with exactly one NotBoolean violation.
C5_BooleanAnyCase ==
    Finished =>
        /\ ToLower(TheValue) \in BoolLiterals => PassedClean
        /\ TheValue = StrMaybe => FailedWith("NotBoolean")

\* 1, 0 and t, f, true, false in lower case, in upper case or capitalised
GoBoolSpellings ==
    UNION {{w, ToUpper(w), Capitalised(w)} : w \in BoolLiterals}

\* C5 (amended): the boolean check passes exactly for 1, 0, t, f, T, F and
\* true / false written in lower case, in upper case or capitalised; any other
\* value, such as tRUE or maybe, fails with exactly one NotBoolean violation
\* that records the lower-cased value.
C5_BooleanSpellings ==
    Finished =>
        IF TheValue \in GoBoolSpellings THEN PassedClean ELSE FailedWith("NotBoolean")

\* the capitalised spelling has passed, a mixed one has not
C5_Witness == PassedClean /\ TheValue = <<"T", "r", "u", "e">>

IsDigits(s) == Len(s) > 0 /\ \A i \in 1..Len(s) : s[i] \in Digit

DropSign(s, signs) == IF Len(s) > 0 /\ s[1] \in signs THEN Tail(s) ELSE s

\* (\.\d+)?
OptFraction(s) == s = <<>> \/ (s[1] = "." /\ IsDigits(Tail(s)))

\* ([eE][-+]?\d+)?
OptExponent(s) ==
    s = <<>> \/ (s[1] \in {"e", "E"} /\ IsDigits(DropSign(Tail(s), {"-", "+"})))

\* ^-?\d+(\.\d+)?([eE][-+]?\d+)?$
MatchesNumericPattern(s) ==
    LET u == DropSign(s, {"-"})
    IN  \E i \in 1..Len(u) : \E j \in i..Len(u) :
            /\ IsDigits(SubSeq(u, 1, i))
            /\ OptFraction(SubSeq(u, i + 1, j))
            /\ OptExponent(SubSeq(u, j + 1, Len(u)))

\* digits with at most one decimal point, before, between or after them
IsMantissa(s) ==
    /\ \A i \in 1..Len(s) : s[i] \in Digit \cup {"."}
    /\ Cardinality({i \in 1..Len(s) : s[i] = "."}) <= 1
    /\ \E i \in 1..Len(s) : s[i] \in Digit

\* where the exponent of a decimal literal starts (past the end without one)
ExponentAt(s) ==
    IF \E i \in 1..Len(s) : s[i] \in {"e", "E"}
    THEN CHOOSE i \in 1..Len(s) : s[i] \in {"e", "E"} /\ \A j \in 1..(i - 1) : s[j] \notin {"e", "E"}
    ELSE Len(s) + 1

\* [+-]?(\d+\.?\d*|\.\d+)([eE][-+]?\d+)?
IsDecimalLiteral(s) ==
    LET u == DropSign(s, {"-", "+"})
    IN  /\ IsMantissa(SubSeq(u, 1, ExponentAt(u) - 1))
        /\ OptExponent(SubSeq(u, ExponentAt(u), Len(u)))

\* inf, infinity (signed or not) and nan, in any letter case
IsSpecialLiteral(s) ==
    \/ ToLower(DropSign(s, {"-", "+"})) \in
          {<<"i", "n", "f">>, <<"i", "n", "f", "i", "n", "i", "t", "y">>}
    \/ ToLower(s) = <<"n", "a", "n">>

RECURSIVE NatOf(_)
NatOf(s) == IF s = <<>> THEN 0 ELSE 10 * NatOf(SubSeq(s, 1, Len(s) - 1)) + DigitVal(s[Len(s)])

RECURSIVE StripZeros(_)
StripZeros(s) == IF Len(s) > 0 /\ s[1] = "0" THEN StripZeros(Tail(s)) ELSE s

\* a decimal literal D * 10^(x - f), D its digits, f its fraction digits, x its
\* exponent, is at least 2^1024 - 2^970 = 1797693134862315807937...(309 digits)
ExceedsFloat64(s) ==
    LET u == DropSign(s, {"-", "+"})
        m == SubSeq(u, 1, ExponentAt(u) - 1)
        xs == SubSeq(u, ExponentAt(u) + 1, Len(u))
        x == IF Len(xs) > 0 /\ xs[1] = "-" THEN 0 - NatOf(Tail(xs))
             ELSE NatOf(DropSign(xs, {"+"}))
        dot == {i \in 1..Len(m) : m[i] = "."}
        f == IF dot = {} THEN 0 ELSE Len(m) - (CHOOSE i \in dot : TRUE)
        D == StripZeros(SelectSeq(m, LAMBDA c : c \in Digit))
        pad == [i \in 1..Len(OverflowDigits) |-> IF i <= Len(D) THEN DigitVal(D[i]) ELSE 0]
    IN  /\ Len(D) > 0
        /\ \/ Len(D) + x - f > 309
           \/ /\ Len(D) + x - f = 309
              /\ \E i \in 1..Len(OverflowDigits) :
                    /\ pad[i] > OverflowDigits[i]
                    /\ \A j \in 1..(i - 1) : pad[j] = OverflowDigits[j]

\* C6 (as stated): the numeric check passes for every value matching
\* ^-?\d+(\.\d+)?([eE][-+]?\d+)?$ and fails with exactly one NotNumber
\* violation for every other string.
C6_NumericPattern ==
    Finished =>
        IF MatchesNumericPattern(TheValue) THEN PassedClean ELSE FailedWith("NotNumber")

\* C6 (amended): the numeric check passes exactly for the values
\* strconv.ParseFloat accepts: the decimal literals [+-]?(\d+\.?\d*|\.\d+)
\* ([eE][-+]?\d+)? whose magnitude does not round to infinity (among them every
\* value matching the stated pattern that is in the float64 range) and inf,
\* infinity, nan in any letter case; any other value, such as abc or the
\* out-of-range 1e999, fails with exactly one NotNumber violation that records
\* the lower-cased value.
C6_NumericParse ==
    Finished =>
        /\ MatchesNumericPattern(TheValue) /\ ~ExceedsFloat64(TheValue) => PassedClean
        /\ IF \/ IsSpecialLiteral(TheValue)
              \/ IsDecimalLiteral(TheValue) /\ ~ExceedsFloat64(TheValue)
           THEN PassedClean
           ELSE FailedWith("NotNumber")

\* a value of the stated pattern with fraction and signed exponent has passed
C6_Witness ==
    PassedClean /\ TheValue = <<"-", "1", "2", ".", "5", "E", "+", "3">>

\* v is e between two runs of white space, e itself without white space at
\* either end
IsTrimOf(v, e) ==
    /\ e = <<>> \/ (e[1] \notin WhiteSpace /\ e[Len(e)] \notin WhiteSpace)
    /\ \E i \in 0..Len(v) : \E j \in i..Len(v) :
          /\ SubSeq(v, i + 1, j) = e
          /\ \A k \in 1..i : v[k] \in WhiteSpace
          /\ \A k \in (j + 1)..Len(v) : v[k] \in WhiteSpace

\* C7: with an enum declared, the string check passes iff the value without
\* its leading and trailing white space equals an enum entry exactly, case
\* included, and otherwise yields exactly one NotInEnum violation; without an
\* enum a string-typed parameter yields no violation.
C7_EnumMembership ==
    Finished =>
        IF TheParam.schema.enum.declared
        THEN IF \E k \in 1..Len(TheParam.schema.enum.values) :
                    IsTrimOf(TheValue, TheParam.schema.enum.values[k])
             THEN PassedClean
             ELSE FailedWith("NotInEnum")
        ELSE PassedClean

\* " red " has passed against the enum red, green, blue
C7_Witness ==
    /\ PassedClean
    /\ TheValue = <<" ", "r", "e", "d", " ">>
    /\ TheParam.schema.enum = Enum(<<StrRed, StrGreen, StrBlue>>)

\* C8: the array-item check runs only for a non-exploded parameter whose item
\* schema is a schema; an array tag of a parameter that is exploded or has no
\* item schema is skipped: the call completes normally and the tag contributes
\* no violation.  (Requests all of whose parameters have a schema.)
C8_ArrayTagSkipped ==
    (Finished /\ Resolved /\ \A i \in ParamIndexes : ~request.params[i].schema.isNil)
    => /\ \A a \in 1..Len(arrayLog) :
             /\ ~request.params[arrayLog[a].param].explode
             /\ request.params[arrayLog[a].param].schema.items.kind = "A"
       /\ \A i \in ParamIndexes :
             (/\ \E j \in CookieIndexes : Matches(i, j)
              /\ Has(request.params[i].schema.type, Array)
              /\ \/ request.params[i].explode
                 \/ request.params[i].schema.items.kind = "nil")
             => /\ Returned
                /\ \A a \in 1..Len(arrayLog) : arrayLog[a].param # i
                /\ \A n \in 1..Len(errs) :
                      errs[n].reason = "ArrayItemMismatch" => errs[n].parameter # request.params[i]

\* C9: no call changes the validator's own state.
C9_Stateless == [][v_errors' = v_errors]_vars

ObjectChecks ==
    UNION {{<<m[1], m[2], k>> : k \in {k \in 1..Len(request.params[m[1]].schema.type) :
                request.params[m[1]].schema.type[k] = Object}} :
           m \in {m \in ParamIndexes \X CookieIndexes :
                    Matches(m[1], m[2]) /\ ~request.params[m[1]].explode}}

====
